---- MODULE Spec2Model ----
(***************************************************************************)
(* Model of the quota service's Redis token bucket (admin/administrable.go *)
(* holds package redis: bucketFactory, redisBucket.Take and the LUA script *)
(* of loadScript) and of the in-memory configuration persister             *)
(* (config/memory_persister.go).                                           *)
(*                                                                         *)
(* Three specifications share the module's variables:                      *)
(*   SpecExec    the LUA script run by the store against one bucket's two  *)
(*               keys, called by Take with a healthy connection;           *)
(*   SpecTake    concurrent Take calls with connection failures, retries   *)
(*               and reconnects, on top of the same script;                *)
(*   SpecPersist the MemoryConfigPersister and a consumer of its watcher.  *)
(*                                                                         *)
(* Numbers are the script's numbers: timestamps and token counts are       *)
(* integers in a range a LUA number holds exactly.                         *)
(***************************************************************************)
EXTENDS Integers, Sequences, FiniteSets, Bags, TLC

VARIABLES
    cfg,        \* the redisBucket's precomputed parameters (NewBucket)
    tna,        \* store cell KEYS[1] "<ns>:<name>:TNA": <<>> absent, <<v>> present
    at,         \* store cell KEYS[2] "<ns>:<name>:AT":  <<>> absent, <<v>> present
    last,       \* the most recent script invocation: arguments, state before, reply
    conform,    \* history: every call so far asked 0 < requested <= size, no faster than fillRate
    drain,      \* history: the admitted Take(size, 0) that emptied a full bucket, if still current
    connectionRetries,  \* bucketFactory.connectionRetries
    configuredRetries,  \* history: the connectionRetries NewBucketFactory was given
    client,     \* bucketFactory.client: the current connection handle
    closed,     \* the handles on which Close() has been called
    handles,    \* how many handles redis.NewClient has made
    replaced,   \* history: per handle h, the connects made by reconnectToRedis(h)
    pc,         \* per caller: where it is in Take
    args,       \* per caller: currentTimeNanos, requested, maxWaitTime of its call
    attempt,    \* per caller: Take's attempt
    keepTrying, \* per caller: Take's keepTrying
    observed,   \* per caller: Take's client, as b.factory.Client() returned it
    takeWaitTime, \* per caller: Take's waitTime
    result,     \* per caller: what its last Take returned
    hist,       \* history, per caller: attempts failed and answered, scripts run, the reply
    config,     \* MemoryConfigPersister.config: the key of the current blob
    configs,    \* MemoryConfigPersister.configs: key -> bytes
    watcher,    \* MemoryConfigPersister.watcher: how many notifications the channel holds
    pcW,        \* per PersistAndNotify caller: where it is
    bytesW,     \* per PersistAndNotify caller: its local bytes
    retW,       \* per PersistAndNotify caller: what its last call returned
    pcC,        \* the watcher's consumer: where it is
    lastRead,   \* the consumer: the blob it read last, <<>> before the first
    persisted,  \* history: the contents PersistAndNotify has stored
    lastPersisted,  \* history: the content of the call that completed last, <<>> if none
    again,      \* history: the last content set current was "new", a "repeat" of the current one, or a "return" to an earlier one
    sinceRecv,  \* history: calls completed since the last receive: "none", "one", "many"
    first,      \* history: currentTimeNanos of the first script invocation, 0 before it
    admitted,   \* history: the sum of requested over the admitted invocations
    ref,        \* history: a reference bucket charged with the admitted invocations
    store,      \* the backing store's bucket state keys: key -> value
    bfCfg,      \* bucketFactory.cfg: the buckets of cfg.Namespaces, as <<namespace, name>>
    pcInit,     \* where bucketFactory.Init is
    existing,   \* cleanStaleBuckets' existing: the keys existingBuckets returned
    cleaned,    \* history: the last Init's argument, what it found and what it deleted
    srvState,   \* the server: "Created", "Started", "Stopped"
    active,     \* the server's active configuration, as Configs() returns it
    clock,      \* the server's time.Now().Unix()
    reload      \* history: the blob the reload loop's read should see, the configuration its last application replaced

execVars == <<cfg, tna, at, last, conform, drain>>
factoryVars == <<connectionRetries, configuredRetries, client, closed, handles, replaced>>
callVars == <<pc, args, attempt, keepTrying, observed, takeWaitTime, result, hist>>

persistVars == <<config, configs, watcher, pcW, bytesW, retW, pcC, lastRead,
                 persisted, lastPersisted, again, sinceRecv>>

rateVars == <<first, admitted, ref>>

\* What the specifications of the bucket and of the persister all leave alone
initVars == <<store, bfCfg, pcInit, existing, cleaned>>
serverVars == <<srvState, active, clock, reload>>
extraVars == <<rateVars, initVars, serverVars>>

vars == <<execVars, factoryVars, callVars, persistVars, extraVars>>

\* The part of the state a specification leaves alone
IdlePersister ==
    /\ config = 0
    /\ configs = <<>>
    /\ watcher = 0
    /\ pcW = <<>>
    /\ bytesW = <<>>
    /\ retW = <<>>
    /\ pcC = "wait"
    /\ lastRead = <<>>
    /\ persisted = {}
    /\ lastPersisted = <<>>
    /\ again = "new"
    /\ sinceRecv = "none"

NoRef == [ level |-> 0, at |-> 0, had |-> 0, plain |-> TRUE ]

NoClean == [ ran |-> FALSE, ok |-> FALSE, arg |-> {}, found |-> {}, removed |-> {}, altered |-> {} ]

IdleFactoryInit ==
    /\ store = <<>>
    /\ bfCfg = {}
    /\ pcInit = "idle"
    /\ existing = {}
    /\ cleaned = NoClean

IdleRate ==
    /\ first = 0
    /\ admitted = 0
    /\ ref = NoRef

\* config.NewDefaultServiceConfig(), as far as the reload pipeline reads it
DefaultConfig == [ version |-> 0, date |-> 0, user |-> 0 ]

NoReload == [ expect |-> <<>>, ran |-> 0, prev |-> DefaultConfig, from |-> <<>> ]

\* The server New(...) returns
IdleServer ==
    /\ srvState = "Created"
    /\ active = DefaultConfig
    /\ clock = 1
    /\ reload = NoReload

IdleExtras ==
    /\ IdleRate
    /\ IdleFactoryInit
    /\ IdleServer

-----------------------------------------------------------------------------
(* Bounds of the model *)

MaxTime == 5            \* timestamps range over 1..MaxTime
MaxRequested == 2       \* requested ranges over -1..MaxRequested
MaxStored == 3          \* calls that would store more accumulated tokens are not explored

MaxRetries == 2         \* NewBucketFactory is given 0..MaxRetries
MaxHandles == 3         \* reconnects stop once this many handles were made

NanosBetweenTokensSet == {2, 3}     \* 1e9 / cfg.FillRate
SizeSet == {1, 2}                   \* cfg.Size
IdleDebtSet == {<<0, 0>>, <<1, 0>>, <<0, 3>>}   \* <<cfg.MaxIdleMillis, cfg.MaxDebtMillis * 1e6>>
MaxWaitSet == {-1, 0, 2}            \* maxWaitTime.Nanoseconds()
Requests == (-1) .. MaxRequested
Times == 1 .. MaxTime

Absent == <<>>
Min(a, b) == IF a <= b THEN a ELSE b
Max(a, b) == IF a >= b THEN a ELSE b

-----------------------------------------------------------------------------
(* bucketFactory.NewBucket: the parameters the bucket passes to the script *)

NewBucket(nbt, size, maxIdleMillis, maxDebtNanos) ==
    [ nanosBetweenTokens    |-> nbt,
      maxTokensToAccumulate |-> size,
      maxIdleTimeMillis     |-> IF maxIdleMillis > 0 THEN maxIdleMillis ELSE 0,
      maxDebtNanos          |-> maxDebtNanos ]

-----------------------------------------------------------------------------
(* The LUA script of loadScript, line by line *)

\* local tokensNextAvailableNanos = tonumber(GET KEYS[1]); if not ... then 0
LoadTokensNextAvailableNanos(cell) == IF cell = Absent THEN 0 ELSE cell[1]

\* local accumulatedTokens = GET KEYS[2]; if not ... then maxTokensToAccumulate
LoadAccumulatedTokens(cell, maxTokensToAccumulate) ==
    IF cell = Absent THEN maxTokensToAccumulate ELSE cell[1]

FreshTokensCeil(currentTimeNanos, tokensNextAvailableNanos, nanosBetweenTokens) ==
    (currentTimeNanos - tokensNextAvailableNanos + nanosBetweenTokens - 1)
        \div nanosBetweenTokens

\* freshTokens = math.floor((currentTimeNanos - tokensNextAvailableNanos) / nanosBetweenTokens)
FreshTokens(currentTimeNanos, tokensNextAvailableNanos, nanosBetweenTokens) ==
    (currentTimeNanos - tokensNextAvailableNanos) \div nanosBetweenTokens

RefillUncapped(t, a, currentTimeNanos, nanosBetweenTokens, maxTokensToAccumulate) ==
    IF currentTimeNanos > t
    THEN [ tokensNextAvailableNanos |-> currentTimeNanos,
           accumulatedTokens |-> a + FreshTokens(currentTimeNanos, t, nanosBetweenTokens) ]
    ELSE [ tokensNextAvailableNanos |-> t, accumulatedTokens |-> a ]

RefillNoFresh(t, a, currentTimeNanos, nanosBetweenTokens, maxTokensToAccumulate) ==
    IF currentTimeNanos > t
    THEN [ tokensNextAvailableNanos |-> currentTimeNanos, accumulatedTokens |-> a ]
    ELSE [ tokensNextAvailableNanos |-> t, accumulatedTokens |-> a ]

\* if currentTimeNanos > tokensNextAvailableNanos then ... end
Refill(t, a, currentTimeNanos, nanosBetweenTokens, maxTokensToAccumulate) ==
    IF currentTimeNanos > t
    THEN [ tokensNextAvailableNanos |-> currentTimeNanos,
           accumulatedTokens |->
               Min(maxTokensToAccumulate,
                   a + FreshTokens(currentTimeNanos, t, nanosBetweenTokens)) ]
    ELSE [ tokensNextAvailableNanos |-> t, accumulatedTokens |-> a ]

RejectsWaitOnly(tokensNextAvailableNanos, currentTimeNanos, maxDebtNanos, waitTime, maxWaitTime) ==
    waitTime > 0 /\ waitTime > maxWaitTime

RejectsDebtOnly(tokensNextAvailableNanos, currentTimeNanos, maxDebtNanos, waitTime, maxWaitTime) ==
    tokensNextAvailableNanos - currentTimeNanos > maxDebtNanos

\* (tokensNextAvailableNanos - currentTimeNanos > maxDebtNanos)
\*     or (waitTime > 0 and waitTime > maxWaitTime)
Rejects(tokensNextAvailableNanos, currentTimeNanos, maxDebtNanos, waitTime, maxWaitTime) ==
    \/ tokensNextAvailableNanos - currentTimeNanos > maxDebtNanos
    \/ (waitTime > 0 /\ waitTime > maxWaitTime)

StoreAlways(rejected, old, new) == new

\* waitTime = -1: nothing is SET; else both keys are SET
StoreUnlessRejected(rejected, old, new) == IF rejected THEN old ELSE new

\* The whole script: the reply and the two cells after it.
Script(tnaCell, atCell, currentTimeNanos, nanosBetweenTokens, maxTokensToAccumulate, requested, maxWaitTime, maxDebtNanos) ==
    LET r == Refill(LoadTokensNextAvailableNanos(tnaCell),
                    LoadAccumulatedTokens(atCell, maxTokensToAccumulate),
                    currentTimeNanos, nanosBetweenTokens, maxTokensToAccumulate)
        waitTime == r.tokensNextAvailableNanos - currentTimeNanos
        accumulatedTokensUsed == Min(r.accumulatedTokens, requested)
        tokensToWaitFor == requested - accumulatedTokensUsed
        futureWaitNanos == tokensToWaitFor * nanosBetweenTokens
        tokensNextAvailableNanos == r.tokensNextAvailableNanos + futureWaitNanos
        accumulatedTokens == r.accumulatedTokens - accumulatedTokensUsed
        rejected == Rejects(tokensNextAvailableNanos, currentTimeNanos, maxDebtNanos,
                            waitTime, maxWaitTime)
    IN  [ ret |-> IF rejected THEN -1 ELSE waitTime,
          tna |-> StoreUnlessRejected(rejected, tnaCell, <<tokensNextAvailableNanos>>),
          at  |-> StoreUnlessRejected(rejected, atCell, <<accumulatedTokens>>) ]

\* EvalSha(scriptSHA, redisKeys, args) for bucket b at timestamp now
EvalSha(b, tnaCell, atCell, now, requested, maxWait) ==
    Script(tnaCell, atCell, now, b.nanosBetweenTokens, b.maxTokensToAccumulate,
           requested, maxWait, b.maxDebtNanos)

\* Take's last lines: a negative reply is (0, false), anything else (waitTime, true)
TakeResult(waitTime) ==
    IF waitTime < 0 THEN [wait |-> 0, ok |-> FALSE] ELSE [wait |-> waitTime, ok |-> TRUE]

-----------------------------------------------------------------------------
(* SpecExec: one bucket, its two cells in the store, and callers whose     *)
(* connection is healthy, so that each Take is one atomic EVALSHA.         *)

NoCall ==
    [ now |-> 0, requested |-> 0, maxWait |-> 0, ret |-> 0, changed |-> FALSE,
      full |-> FALSE, t0 |-> 0, expired |-> FALSE, rejectedSince |-> FALSE ]

NoDrain == [ t0 |-> 0, expired |-> FALSE, rejectedSince |-> FALSE ]

InitExec ==
    /\ cfg \in { NewBucket(n, s, ld[1], ld[2]) :
                    n \in NanosBetweenTokensSet, s \in SizeSet, ld \in IdleDebtSet }
    /\ tna = Absent
    /\ at = Absent
    /\ last = NoCall
    /\ conform = TRUE
    /\ drain = NoDrain
    /\ connectionRetries = 1
    /\ configuredRetries = 1
    /\ client = 0
    /\ closed = {}
    /\ handles = 0
    /\ replaced = <<>>
    /\ pc = <<>>
    /\ args = <<>>
    /\ attempt = <<>>
    /\ keepTrying = <<>>
    /\ observed = <<>>
    /\ takeWaitTime = <<>>
    /\ result = <<>>
    /\ hist = <<>>
    /\ IdlePersister
    /\ IdleExtras

\* One EVALSHA of the script on the bucket's two keys, answered
Invoke(now, requested, maxWait) ==
    \E res \in { EvalSha(cfg, tna, at, now, requested, maxWait) } :
    LET full == tna = Absent /\ at = Absent
        isDrain == /\ full
                   /\ requested = cfg.maxTokensToAccumulate
                   /\ maxWait = 0
                   /\ cfg.maxDebtNanos = 0
    IN  /\ (IF res.at = Absent THEN TRUE ELSE res.at[1] <= MaxStored)
        /\ tna' = res.tna
        /\ at' = res.at
        /\ last' = [ now |-> now, requested |-> requested, maxWait |-> maxWait,
                     ret |-> res.ret,
                     changed |-> (res.tna # tna \/ res.at # at),
                     full |-> full, t0 |-> drain.t0, expired |-> drain.expired,
                     rejectedSince |-> drain.rejectedSince ]
        /\ conform' = ( /\ conform
                        /\ 0 < requested
                        /\ requested <= cfg.maxTokensToAccumulate
                        /\ (last.now = 0
                            \/ now >= last.now + requested * cfg.nanosBetweenTokens) )
        /\ drain' = IF isDrain
                    THEN [ t0 |-> now, expired |-> FALSE, rejectedSince |-> FALSE ]
                    ELSE IF res.ret < 0
                    THEN [ drain EXCEPT !.rejectedSince = (drain.t0 > 0) ]
                    ELSE NoDrain
        /\ UNCHANGED <<cfg, factoryVars, callVars, persistVars>>

\* redisBucket.Take(requested, maxWait) whose first EVALSHA is answered. now is
\* the caller's time.Now().UnixNano(): the wall clocks of the service's instances
\* are not ordered with respect to each other, nor are their calls' arrivals.
TakeCall(now, requested, maxWait) ==
    /\ Invoke(now, requested, maxWait)
    /\ UNCHANGED extraVars

\* SET ... "PX" lifespan: the store drops both cells once the bucket has been
\* idle for maxIdleTimeMillis of the store's own clock.
Expire ==
    /\ cfg.maxIdleTimeMillis > 0
    /\ tna # Absent
    /\ tna' = Absent
    /\ at' = Absent
    /\ drain' = [ drain EXCEPT !.expired = (drain.t0 > 0) ]
    /\ UNCHANGED <<cfg, last, conform, factoryVars, callVars, persistVars, extraVars>>

NextExec ==
    \/ \E now \in Times, requested \in Requests, maxWait \in MaxWaitSet :
            TakeCall(now, requested, maxWait)
    \/ Expire

SpecExec == InitExec /\ [][NextExec]_vars

-----------------------------------------------------------------------------
(* SpecRate: the script on a bucket without idle expiry, called with       *)
(* non-negative amounts and timestamps that never go back, by any number   *)
(* of callers (each invocation is atomic in the store); the history keeps  *)
(* the sum admitted and a reference bucket that refills continuously.      *)

InitRate ==
    /\ InitExec
    /\ cfg.maxIdleTimeMillis = 0

\* The reference bucket at time now, before the call is charged: started full,
\* one token per nanosBetweenTokens, never above size. Its level is counted in
\* nanoseconds of refill (nanosBetweenTokens of them make one token).
RefLevel(now) ==
    IF first = 0 THEN cfg.maxTokensToAccumulate * cfg.nanosBetweenTokens
    ELSE Min(cfg.maxTokensToAccumulate * cfg.nanosBetweenTokens, ref.level + (now - ref.at))

\* Take(requested >= 0, maxWait) at a timestamp not before the last one's
RateTake(now, requested, maxWait) ==
    /\ now >= last.now
    /\ requested >= 0
    /\ Invoke(now, requested, maxWait)
    /\ first' = IF first = 0 THEN now ELSE first
    /\ admitted' = admitted + (IF last'.ret >= 0 THEN requested ELSE 0)
    /\ ref' = [ level |-> RefLevel(now) - (IF last'.ret >= 0
                                            THEN requested * cfg.nanosBetweenTokens
                                            ELSE 0),
                at    |-> now,
                had   |-> RefLevel(now),
                plain |-> (ref.plain /\ maxWait = 0 /\ requested > 0) ]
    /\ UNCHANGED <<initVars, serverVars>>

NextRate ==
    \E now \in Times, requested \in 0 .. MaxRequested, maxWait \in MaxWaitSet :
        RateTake(now, requested, maxWait)

SpecRate == InitRate /\ [][NextRate]_vars

-----------------------------------------------------------------------------
(* SpecTake: concurrent callers of redisBucket.Take on one bucket, one     *)
(* bucketFactory and its connection handle; EVALSHA may fail.              *)

Procs == {"t1", "t2"}
\* <<currentTimeNanos, requested, maxWaitTime>> of the calls
TakeArgSet == { <<1, 2, 0>>, <<1, 1, 2>>, <<1, 1, 0>>, <<3, 1, 0>> }
TakeConfigSet == { NewBucket(2, 1, 0, 4) }

NoArgs == [ now |-> 0, requested |-> 0, maxWait |-> 0 ]
NoResult == [ wait |-> 0, ok |-> FALSE ]
NoHist == [ failed |-> 0, yielded |-> 0, applied |-> 0, ret |-> 0 ]

NewBucketFactoryNoClamp(retries) == retries

\* NewBucketFactory: if connectionRetries < 1 { connectionRetries = 1 }
NewBucketFactory(retries) == IF retries < 1 THEN 1 ELSE retries

\* The state after NewBucketFactory(redisOpts, n), Init(cfg) (bf.client == nil:
\* connectToRedisLocked) and NewBucket: handle 1 is current and open.
InitTake ==
    /\ cfg \in TakeConfigSet
    /\ tna = Absent
    /\ at = Absent
    /\ last = NoCall
    /\ conform = TRUE
    /\ drain = NoDrain
    /\ configuredRetries \in 0 .. MaxRetries
    /\ connectionRetries = NewBucketFactory(configuredRetries)
    /\ client = 1
    /\ closed = {}
    /\ handles = 1
    /\ replaced = [ h \in 1 .. MaxHandles |-> 0 ]
    /\ pc = [ p \in Procs |-> "idle" ]
    /\ args = [ p \in Procs |-> NoArgs ]
    /\ attempt = [ p \in Procs |-> 0 ]
    /\ keepTrying = [ p \in Procs |-> FALSE ]
    /\ observed = [ p \in Procs |-> 0 ]
    /\ takeWaitTime = [ p \in Procs |-> 0 ]
    /\ result = [ p \in Procs |-> NoResult ]
    /\ hist = [ p \in Procs |-> NoHist ]
    /\ IdlePersister
    /\ IdleExtras

\* Take, up to the loop: the arguments are formatted, keepTrying := true, attempt := 0
TakeStart(p, now, requested, maxWait) ==
    /\ pc[p] \in {"idle", "done"}
    /\ pc' = [ pc EXCEPT ![p] = "loop" ]
    /\ args' = [ args EXCEPT ![p] = [ now |-> now, requested |-> requested,
                                      maxWait |-> maxWait ] ]
    /\ attempt' = [ attempt EXCEPT ![p] = 0 ]
    /\ keepTrying' = [ keepTrying EXCEPT ![p] = TRUE ]
    /\ takeWaitTime' = [ takeWaitTime EXCEPT ![p] = 0 ]
    /\ observed' = [ observed EXCEPT ![p] = 0 ]
    /\ result' = [ result EXCEPT ![p] = NoResult ]
    /\ hist' = [ hist EXCEPT ![p] = NoHist ]
    /\ UNCHANGED <<extraVars, persistVars, execVars, factoryVars>>

KeepLoopingIgnoresResult(p) == attempt[p] < connectionRetries

\* for attempt := 0; keepTrying && attempt < b.factory.connectionRetries; attempt++
KeepLooping(p) == keepTrying[p] /\ attempt[p] < connectionRetries

\* The loop goes round: client := b.factory.Client().(*redis.Client)
LoopEnter(p) ==
    /\ pc[p] = "loop"
    /\ KeepLooping(p)
    /\ observed' = [ observed EXCEPT ![p] = client ]
    /\ pc' = [ pc EXCEPT ![p] = "eval" ]
    /\ UNCHANGED <<extraVars, persistVars, execVars, factoryVars, args, attempt, keepTrying, takeWaitTime, result, hist>>

\* The loop is left with keepTrying still set: panic
TakePanic(p) ==
    /\ pc[p] = "loop"
    /\ ~KeepLooping(p)
    /\ keepTrying[p]
    /\ pc' = [ pc EXCEPT ![p] = "panic" ]
    /\ UNCHANGED <<extraVars, persistVars, execVars, factoryVars, args, attempt, keepTrying, observed, takeWaitTime,
                   result, hist>>

\* The loop is left with a reply: return 0, false or waitTime, true. The
\* call's locals are gone with it.
TakeReturn(p) ==
    /\ pc[p] = "loop"
    /\ ~KeepLooping(p)
    /\ ~keepTrying[p]
    /\ result' = [ result EXCEPT ![p] = TakeResult(takeWaitTime[p]) ]
    /\ pc' = [ pc EXCEPT ![p] = "done" ]
    /\ attempt' = [ attempt EXCEPT ![p] = 0 ]
    /\ observed' = [ observed EXCEPT ![p] = 0 ]
    /\ takeWaitTime' = [ takeWaitTime EXCEPT ![p] = 0 ]
    /\ UNCHANGED <<extraVars, persistVars, execVars, factoryVars, args, keepTrying, hist>>

\* client.EvalSha on an open handle, answered with an int64: case int64
EvalReply(p) ==
    /\ pc[p] = "eval"
    /\ observed[p] \notin closed
    /\ \E res \in { EvalSha(cfg, tna, at, args[p].now, args[p].requested, args[p].maxWait) } :
        /\ tna' = res.tna
        /\ at' = res.at
        /\ takeWaitTime' = [ takeWaitTime EXCEPT ![p] = res.ret ]
        /\ hist' = [ hist EXCEPT ![p].yielded = @ + 1, ![p].ret = res.ret,
                                 ![p].applied = @ + (IF res.ret >= 0 THEN 1 ELSE 0) ]
    /\ keepTrying' = [ keepTrying EXCEPT ![p] = FALSE ]
    /\ attempt' = [ attempt EXCEPT ![p] = @ + 1 ]
    /\ pc' = [ pc EXCEPT ![p] = "loop" ]
    /\ UNCHANGED <<extraVars, persistVars, cfg, last, conform, drain, factoryVars, args, observed, result>>

\* client.EvalSha on an open handle: the store ran the script and the reply did
\* not arrive (the connection broke after the request was sent): default
EvalLost(p) ==
    /\ pc[p] = "eval"
    /\ observed[p] \notin closed
    /\ \E res \in { EvalSha(cfg, tna, at, args[p].now, args[p].requested, args[p].maxWait) } :
        /\ tna' = res.tna
        /\ at' = res.at
        /\ hist' = [ hist EXCEPT ![p].failed = @ + 1,
                                 ![p].applied = @ + (IF res.ret >= 0 THEN 1 ELSE 0) ]
    /\ pc' = [ pc EXCEPT ![p] = "close" ]
    /\ UNCHANGED <<extraVars, persistVars, cfg, last, conform, drain, factoryVars, args, attempt, keepTrying,
                   observed, takeWaitTime, result>>

\* client.EvalSha fails before the store runs the script ("redis: client is
\* closed" on a closed handle, a network error on an open one): default
EvalFail(p) ==
    /\ pc[p] = "eval"
    /\ hist' = [ hist EXCEPT ![p].failed = @ + 1 ]
    /\ pc' = [ pc EXCEPT ![p] = "close" ]
    /\ UNCHANGED <<extraVars, persistVars, execVars, factoryVars, args, attempt, keepTrying, observed, takeWaitTime,
                   result>>

\* b.factory.client.Close(): the handle the factory holds now, read without the lock
CloseClient(p) ==
    /\ pc[p] = "close"
    /\ closed' = closed \cup {client}
    /\ pc' = [ pc EXCEPT ![p] = "reconnect" ]
    /\ UNCHANGED <<extraVars, persistVars, execVars, connectionRetries, configuredRetries, client, handles, replaced,
                   args, attempt, keepTrying, observed, takeWaitTime, result, hist>>

ReplacesAlways(oldClient) == TRUE

\* reconnectToRedis: if oldClient == bf.client
Replaces(oldClient) == oldClient = client

\* b.factory.reconnectToRedis(client), under bf.mu; then attempt++
Reconnect(p) ==
    /\ pc[p] = "reconnect"
    /\ IF Replaces(observed[p])
       THEN /\ handles < MaxHandles
            /\ handles' = handles + 1
            /\ client' = handles + 1
            /\ replaced' = [ replaced EXCEPT ![observed[p]] = @ + 1 ]
       ELSE UNCHANGED <<handles, client, replaced>>
    /\ attempt' = [ attempt EXCEPT ![p] = @ + 1 ]
    /\ pc' = [ pc EXCEPT ![p] = "loop" ]
    /\ UNCHANGED <<extraVars, persistVars, execVars, connectionRetries, configuredRetries, closed,
                   args, keepTrying, observed, takeWaitTime, result, hist>>

NextTake ==
    \E p \in Procs :
        \/ \E a \in TakeArgSet : TakeStart(p, a[1], a[2], a[3])
        \/ LoopEnter(p)
        \/ TakePanic(p)
        \/ TakeReturn(p)
        \/ EvalReply(p)
        \/ EvalLost(p)
        \/ EvalFail(p)
        \/ CloseClient(p)
        \/ Reconnect(p)

SpecTake == InitTake /\ [][NextTake]_vars

-----------------------------------------------------------------------------
(* SpecPersist: the MemoryConfigPersister, callers of PersistAndNotify     *)
(* that take turns (a call starts when none is under way), and one         *)
(* consumer of its watcher.                                                *)

Writers == {"w1", "w2"}
Blobs == { <<>>, <<7>>, <<8>>, <<7, 8>> }     \* marshalled configurations
RaceBlobs == { <<7>>, <<8>> }               \* those given to calls that overlap
NoKey == 0                                    \* m.config before the first persist: ""

\* hashConfig: a digest of the bytes, no two contents sharing one
RECURSIVE hashConfig(_)
hashConfig(bytes) ==
    IF bytes = <<>> THEN 1
    ELSE hashConfig(SubSeq(bytes, 1, Len(bytes) - 1)) * 256 + bytes[Len(bytes)]

\* make(chan struct{}, 1)
WatcherCap == 1

NextCurrentOnlyNew(cs, h) == IF h \in DOMAIN cs THEN config ELSE h

\* m.config = hashConfig(bytes)
NextCurrent(cs, h) == h

StoreUnderFreshKey(cs, key, bytes) ==
    [ k \in DOMAIN cs \cup { -(Cardinality(DOMAIN cs) + 1) } |->
        IF k \in DOMAIN cs THEN cs[k] ELSE bytes ]

\* m.configs[m.config] = bytes
StoreConfig(cs, key, bytes) ==
    [ k \in DOMAIN cs \cup {key} |-> IF k = key THEN bytes ELSE cs[k] ]

NotifyUncoalesced(w) == w + 1

NotifyDropped(w) == w

\* select { case m.watcher <- struct{}{}: default: }
Notify(w) == IF w < WatcherCap THEN w + 1 ELSE w

ReadLargestKey ==
    IF DOMAIN configs = {} THEN <<>>
    ELSE configs[CHOOSE k \in DOMAIN configs : \A j \in DOMAIN configs : k >= j]

ReadOldestKey ==
    IF DOMAIN configs = {} THEN <<>>
    ELSE configs[CHOOSE k \in DOMAIN configs : \A j \in DOMAIN configs : k <= j]

\* ReadPersistedConfig: bytes.NewReader(m.configs[m.config]); a missing key reads as no bytes
ReadPersistedConfig == IF config \in DOMAIN configs THEN configs[config] ELSE <<>>

\* ReadHistoricalConfigs: one reader per entry of m.configs, in no order
ReadHistoricalConfigs ==
    [ b \in { configs[k] : k \in DOMAIN configs } |->
        Cardinality({ k \in DOMAIN configs : configs[k] = b }) ]

\* The state after NewMemoryConfigPersister()
InitPersist ==
    /\ config = NoKey
    /\ configs = <<>>
    /\ watcher = 0
    /\ pcW = [ w \in Writers |-> "idle" ]
    /\ bytesW = [ w \in Writers |-> <<>> ]
    /\ retW = [ w \in Writers |-> "none" ]
    /\ pcC = "wait"
    /\ lastRead = <<>>
    /\ persisted = {}
    /\ lastPersisted = <<>>
    /\ again = "new"
    /\ sinceRecv = "none"
    /\ cfg = NewBucket(1, 1, 0, 0)
    /\ tna = Absent
    /\ at = Absent
    /\ last = NoCall
    /\ conform = TRUE
    /\ drain = NoDrain
    /\ connectionRetries = 1
    /\ configuredRetries = 1
    /\ client = 0
    /\ closed = {}
    /\ handles = 0
    /\ replaced = <<>>
    /\ pc = <<>>
    /\ args = <<>>
    /\ attempt = <<>>
    /\ keepTrying = <<>>
    /\ observed = <<>>
    /\ takeWaitTime = <<>>
    /\ result = <<>>
    /\ hist = <<>>
    /\ IdleExtras

consumerVars == <<pcC, lastRead>>
otherVars == <<execVars, factoryVars, callVars, extraVars>>

\* No PersistAndNotify is under way
Quiet == \A w \in DOMAIN pcW : pcW[w] = "idle"

\* bytes, err := ioutil.ReadAll(marshalledConfig), err == nil
PersistRead(w, blob) ==
    /\ pcW[w] = "idle"
    /\ pcW' = [ pcW EXCEPT ![w] = "set" ]
    /\ bytesW' = [ bytesW EXCEPT ![w] = blob ]
    /\ retW' = [ retW EXCEPT ![w] = "none" ]
    /\ UNCHANGED <<config, configs, watcher, consumerVars, persisted, lastPersisted, again,
                   sinceRecv, otherVars>>

\* bytes, err := ioutil.ReadAll(marshalledConfig), err != nil: return err
PersistReadFails(w) ==
    /\ pcW[w] = "idle"
    /\ retW' = [ retW EXCEPT ![w] = "err" ]
    /\ UNCHANGED <<config, configs, watcher, pcW, bytesW, consumerVars, persisted,
                   lastPersisted, again, sinceRecv, otherVars>>

\* m.config = hashConfig(bytes)
PersistSetConfig(w) ==
    /\ pcW[w] = "set"
    /\ config' = NextCurrent(configs, hashConfig(bytesW[w]))
    /\ again' = IF bytesW[w] \notin persisted THEN "new"
                 ELSE IF config = hashConfig(bytesW[w]) THEN "repeat" ELSE "return"
    /\ pcW' = [ pcW EXCEPT ![w] = "store" ]
    /\ UNCHANGED <<configs, watcher, bytesW, retW, consumerVars, persisted, lastPersisted,
                   sinceRecv, otherVars>>

\* m.configs[m.config] = bytes
PersistStore(w) ==
    /\ pcW[w] = "store"
    /\ configs' = StoreConfig(configs, config, bytesW[w])
    /\ persisted' = persisted \cup { bytesW[w] }
    /\ pcW' = [ pcW EXCEPT ![w] = "notify" ]
    /\ UNCHANGED <<config, watcher, bytesW, retW, consumerVars, lastPersisted, again,
                   sinceRecv, otherVars>>

\* select { case m.watcher <- struct{}{}: default: }; return nil
PersistNotify(w) ==
    /\ pcW[w] = "notify"
    /\ watcher' = Notify(watcher)
    /\ pcW' = [ pcW EXCEPT ![w] = "idle" ]
    /\ retW' = [ retW EXCEPT ![w] = "nil" ]
    /\ lastPersisted' = << bytesW[w] >>
    /\ sinceRecv' = IF sinceRecv = "none" THEN "one" ELSE "many"
    /\ UNCHANGED <<config, configs, bytesW, consumerVars, persisted, again, otherVars>>

\* The consumer: <-p.ConfigChangedWatcher()
ConsumerReceive ==
    /\ pcC = "wait"
    /\ watcher > 0
    /\ watcher' = watcher - 1
    /\ pcC' = "read"
    /\ sinceRecv' = "none"
    /\ UNCHANGED <<config, configs, pcW, bytesW, retW, lastRead, persisted, lastPersisted,
                   again, otherVars>>

\* The consumer: p.ReadPersistedConfig()
ConsumerRead ==
    /\ pcC = "read"
    /\ lastRead' = << ReadPersistedConfig >>
    /\ pcC' = "wait"
    /\ UNCHANGED <<config, configs, watcher, pcW, bytesW, retW, persisted, lastPersisted,
                   again, sinceRecv, otherVars>>

NextPersist ==
    \/ \E w \in Writers :
        \/ \E blob \in Blobs : Quiet /\ PersistRead(w, blob)
        \/ Quiet /\ PersistReadFails(w)
        \/ PersistSetConfig(w)
        \/ PersistStore(w)
        \/ PersistNotify(w)
    \/ ConsumerReceive
    \/ ConsumerRead

SpecPersist == InitPersist /\ [][NextPersist]_vars

\* PersistAndNotify takes no lock: calls from several goroutines overlap, and
\* overlap with the consumer's ReadPersistedConfig.
NextPersistRace ==
    \/ \E w \in Writers :
        \/ \E blob \in RaceBlobs : PersistRead(w, blob)
        \/ PersistReadFails(w)
        \/ PersistSetConfig(w)
        \/ PersistStore(w)
        \/ PersistNotify(w)
    \/ ConsumerReceive
    \/ ConsumerRead

SpecPersistRace == InitPersist /\ [][NextPersistRace]_vars

\* The consumer is a goroutine of its own that loops on the watcher: it is not
\* starved. Nothing makes a caller of PersistAndNotify call, or go on.
SpecPersistFair ==
    /\ SpecPersistRace
    /\ WF_vars(ConsumerReceive)
    /\ WF_vars(ConsumerRead)

-----------------------------------------------------------------------------
(* SpecServer: the server's reload pipeline on the MemoryConfigPersister.  *)
(* The server is what the design says of it (Start, UpdateConfig, the      *)
(* reload loop); the test persists a configuration before Start. Calls of  *)
(* PersistAndNotify take turns; the reload loop runs beside them.          *)

MaxApplied == 2         \* UpdateConfig is not explored once this many were applied
MaxClock == 2           \* the clock ranges over 1..MaxClock

Users == { 1, 2 }               \* the user given to UpdateConfig, as a byte
SubmittedVersions == { 0 }      \* newConfig.Version of NewDefaultServiceConfig()
SeedVersions == { 2 }           \* originalConfig.Version = 2
Admins == { "w1" }              \* the callers of UpdateConfig

\* config.Marshal: the bytes of a configuration
Marshal(c) == << c.version, c.date, c.user >>

\* config.Unmarshal
Unmarshal(bytes) == [ version |-> bytes[1], date |-> bytes[2], user |-> bytes[3] ]

\* Whether bytes are a marshalled configuration
Decodes(bytes) == Len(bytes) = 3

\* The blob of the PersistAndNotify that set the current key last
LatestBlob ==
    IF \E w \in Writers : pcW[w] \in {"store", "notify"}
    THEN bytesW[CHOOSE w \in Writers : pcW[w] \in {"store", "notify"}]
    ELSE IF lastPersisted = <<>> THEN <<>> ELSE lastPersisted[1]

\* The reload loop's new configuration: the decoded one, its version the active
\* one's plus 1, its date the current time, its user the one attributed
BumpVersion(current, decoded, now) ==
    [ version |-> current.version + 1, date |-> now, user |-> decoded.user ]

InitServer == InitPersist

\* Before Start: p.PersistAndNotify(marshalledConfig), a configuration some
\* earlier run left
SeedConfig(w, version, user) ==
    /\ srvState = "Created"
    /\ Quiet
    /\ config = NoKey
    /\ PersistRead(w, Marshal([ version |-> version, date |-> 0, user |-> user ]))

\* Start: the persisted configuration, or the default one if there is none,
\* becomes active and the reload loop starts
ServerStart ==
    /\ srvState = "Created"
    /\ Quiet
    /\ srvState' = "Started"
    /\ active' = IF config = NoKey THEN DefaultConfig ELSE Unmarshal(ReadPersistedConfig)
    /\ UNCHANGED <<clock, reload, rateVars, initVars, persistVars, execVars, factoryVars,
                   callVars>>

\* Stop: the reload loop ends
ServerStop ==
    /\ srvState = "Started"
    /\ srvState' = "Stopped"
    /\ UNCHANGED <<active, clock, reload, rateVars, initVars, persistVars, execVars,
                   factoryVars, callVars>>

\* Time passes
ClockTick ==
    /\ clock < MaxClock
    /\ clock' = clock + 1
    /\ UNCHANGED <<srvState, active, reload, rateVars, initVars, persistVars, execVars,
                   factoryVars, callVars>>

\* UpdateConfig(newConfig, user): marshal with the user attached, then
\* PersistAndNotify; it returns when PersistAndNotify does
UpdateConfig(w, version, user) ==
    /\ srvState = "Started"
    /\ Quiet
    /\ reload.ran < MaxApplied
    /\ PersistRead(w, Marshal([ version |-> version, date |-> 0, user |-> user ]))

\* The reload loop: <-ConfigChangedWatcher()
ReloadReceive ==
    /\ srvState = "Started"
    /\ ConsumerReceive

\* The reload loop: re-read the current persisted blob
ReloadRead ==
    /\ srvState = "Started"
    /\ pcC = "read"
    /\ lastRead' = << ReadPersistedConfig >>
    /\ pcC' = "apply"
    /\ reload' = [ reload EXCEPT !.expect = LatestBlob ]
    /\ UNCHANGED <<srvState, active, clock, rateVars, initVars, config, configs, watcher, pcW,
                   bytesW, retW, persisted, lastPersisted, again, sinceRecv, execVars,
                   factoryVars, callVars>>

\* The reload loop: decode, bump the version, set date and user, Factory.Init,
\* swap the active configuration
ReloadApply ==
    /\ srvState = "Started"
    /\ pcC = "apply"
    /\ Decodes(lastRead[1])
    /\ active' = BumpVersion(active, Unmarshal(lastRead[1]), clock)
    /\ reload' = [ reload EXCEPT !.ran = @ + 1, !.prev = active, !.from = reload.expect ]
    /\ pcC' = "wait"
    /\ UNCHANGED <<srvState, clock, rateVars, initVars, config, configs, watcher, pcW, bytesW,
                   retW, lastRead, persisted, lastPersisted, again, sinceRecv, execVars,
                   factoryVars, callVars>>

\* The reload loop: the blob does not decode; the active configuration stays
ReloadApplyFails ==
    /\ srvState = "Started"
    /\ pcC = "apply"
    /\ ~Decodes(lastRead[1])
    /\ pcC' = "wait"
    /\ UNCHANGED <<serverVars, rateVars, initVars, config, configs, watcher, pcW, bytesW,
                   retW, lastRead, persisted, lastPersisted, again, sinceRecv, execVars,
                   factoryVars, callVars>>

NextServer ==
    \/ \E w \in Admins :
        \/ \E version \in SeedVersions, user \in Users : SeedConfig(w, version, user)
        \/ \E version \in SubmittedVersions, user \in Users : UpdateConfig(w, version, user)
        \/ PersistSetConfig(w)
        \/ PersistStore(w)
        \/ PersistNotify(w)
    \/ ServerStart
    \/ ServerStop
    \/ ClockTick
    \/ ReloadReceive
    \/ ReloadRead
    \/ ReloadApply
    \/ ReloadApplyFails

SpecServer == InitServer /\ [][NextServer]_vars

\* The reload loop is a goroutine of its own and is not starved; nothing makes
\* anyone call UpdateConfig, Stop, or the clock advance.
SpecServerFair ==
    /\ SpecServer
    /\ WF_vars(ReloadReceive)
    /\ WF_vars(ReloadRead)
    /\ WF_vars(ReloadApply)
    /\ WF_vars(ReloadApplyFails)

-----------------------------------------------------------------------------
(* SpecInit: bucketFactory.Init and its cleanup of stale buckets, on a     *)
(* store that the buckets of this and of other instances write to.         *)
(* existingBuckets and deleteUnknown are what the design says of them.     *)

NamespaceNames == { "n1", "n2" }
BucketNames == { "a", "b" }
AllBuckets == { <<"n1", "a">>, <<"n1", "b">>, <<"n2", "a">> }
ServiceConfigs == SUBSET AllBuckets     \* cfg.Namespaces, as the buckets in them

tokensNextAvblNanosSuffix == "TNA"
accumulatedTokensSuffix == "AT"
Suffixes == { tokensNextAvblNanosSuffix, accumulatedTokensSuffix }

toRedisKeyNoNamespace(namespace, bucketName, suffix) == bucketName \o ":" \o suffix

\* toRedisKey: namespace + ":" + bucketName + ":" + suffix
toRedisKey(namespace, bucketName, suffix) ==
    namespace \o ":" \o bucketName \o ":" \o suffix

\* redisBucket.redisKeys, as NewBucket sets them
RedisKeys(namespace, bucketName) ==
    { toRedisKey(namespace, bucketName, sfx) : sfx \in Suffixes }

InitCfgKeepsOld(old, new) == old

\* Init: bf.cfg = cfg
InitCfg(old, new) == new

\* existingBuckets: every bucket state key the store holds
ExistingBuckets(st) == DOMAIN st

\* deleteUnknown: the keys among existing that no bucket of namespaces implies
UnknownKeys(found, namespaces) ==
    found \ UNION { RedisKeys(b[1], b[2]) : b \in namespaces }

\* DEL of a set of keys
Delete(st, keys) == [ k \in DOMAIN st \ keys |-> st[k] ]

InitInit ==
    /\ InitPersist
    /\ pcInit = "idle"

\* Some instance's Take on a bucket is admitted: the script SETs its two keys.
\* The values are told apart, not computed.
StoreSet(namespace, bucketName) ==
    /\ store' = [ k \in DOMAIN store \cup RedisKeys(namespace, bucketName) |->
                    IF k \in RedisKeys(namespace, bucketName)
                    THEN (IF k \in DOMAIN store THEN 3 - store[k] ELSE 1)
                    ELSE store[k] ]
    /\ UNCHANGED <<bfCfg, pcInit, existing, cleaned, rateVars, serverVars, persistVars, execVars,
                   factoryVars, callVars>>

\* Init(cfg), under bf.mu: bf.cfg = cfg
InitStart(newConfig) ==
    /\ pcInit = "idle"
    /\ bfCfg' = InitCfg(bfCfg, newConfig)
    /\ pcInit' = IF client = 0 THEN "connect" ELSE "scan"
    /\ cleaned' = [ NoClean EXCEPT !.arg = newConfig ]
    /\ UNCHANGED <<store, existing, rateVars, serverVars, persistVars, execVars, factoryVars, callVars>>

\* if bf.client == nil { bf.connectToRedisLocked() }
InitConnect ==
    /\ pcInit = "connect"
    /\ client' = handles + 1
    /\ handles' = handles + 1
    /\ pcInit' = "scan"
    /\ UNCHANGED <<store, bfCfg, existing, cleaned, rateVars, serverVars, persistVars, execVars,
                   connectionRetries, configuredRetries, closed, replaced, callVars>>

\* cleanStaleBuckets: existing, err := existingBuckets(bf.client), err == nil
CleanScan ==
    /\ pcInit = "scan"
    /\ existing' = ExistingBuckets(store)
    /\ pcInit' = "delete"
    /\ UNCHANGED <<store, bfCfg, cleaned, rateVars, serverVars, persistVars, execVars, factoryVars,
                   callVars>>

\* cleanStaleBuckets: err != nil, return err; Init logs it
CleanScanFails ==
    /\ pcInit = "scan"
    /\ cleaned' = [ cleaned EXCEPT !.ran = TRUE, !.ok = FALSE ]
    /\ pcInit' = "idle"
    /\ UNCHANGED <<store, bfCfg, existing, rateVars, serverVars, persistVars, execVars, factoryVars,
                   callVars>>

\* return deleteUnknown(bf.client, existing, bf.cfg.Namespaces), nil
CleanDelete ==
    /\ pcInit = "delete"
    /\ store' = Delete(store, UnknownKeys(existing, bfCfg))
    /\ cleaned' = [ cleaned EXCEPT !.ran = TRUE, !.ok = TRUE, !.found = existing,
                                    !.removed = DOMAIN store \ DOMAIN store',
                                    !.altered = { k \in DOMAIN store \cap DOMAIN store' :
                                                    store'[k] # store[k] } ]
    /\ existing' = {}
    /\ pcInit' = "idle"
    /\ UNCHANGED <<bfCfg, rateVars, serverVars, persistVars, execVars, factoryVars, callVars>>

\* deleteUnknown returns an error, some of the keys deleted; Init logs it
CleanDeleteFails ==
    /\ pcInit = "delete"
    /\ \E keys \in SUBSET UnknownKeys(existing, bfCfg) :
            /\ keys # UnknownKeys(existing, bfCfg)
            /\ store' = Delete(store, keys)
    /\ cleaned' = [ cleaned EXCEPT !.ran = TRUE, !.ok = FALSE, !.found = existing,
                                    !.removed = DOMAIN store \ DOMAIN store',
                                    !.altered = { k \in DOMAIN store \cap DOMAIN store' :
                                                    store'[k] # store[k] } ]
    /\ existing' = {}
    /\ pcInit' = "idle"
    /\ UNCHANGED <<bfCfg, rateVars, serverVars, persistVars, execVars, factoryVars, callVars>>

NextInit ==
    \/ \E b \in AllBuckets : StoreSet(b[1], b[2])
    \/ \E newConfig \in ServiceConfigs : InitStart(newConfig)
    \/ InitConnect
    \/ CleanScan
    \/ CleanScanFails
    \/ CleanDelete
    \/ CleanDeleteFails

SpecInit == InitInit /\ [][NextInit]_vars

-----------------------------------------------------------------------------
(* Properties of the script, under SpecExec *)

\* C1: a script invocation whose admission test fails (reply -1) leaves both
\* cells of the bucket exactly as they were, absent cells included.
C1_RejectionLeavesStore == (last.now > 0 /\ last.ret < 0) => ~last.changed

\* A call was rejected against cells that are present.
C1_Witness == last.now > 0 /\ last.ret < 0 /\ tna # Absent /\ at # Absent

\* C3: on a bucket that starts full, as long as every call so far asked for
\* 0 < requested <= size and came at least requested * nanosBetweenTokens
\* after the call before it, the last call was admitted with wait 0.
C3_ConformingAdmitted == (conform /\ last.now > 0) => last.ret = 0

\* A later call of such a sequence (the cells were present before it) took the
\* whole size with maxWait = 0 and maxDebt = 0.
C3_Witness ==
    /\ conform
    /\ last.now > 0
    /\ ~last.full
    /\ last.requested = cfg.maxTokensToAccumulate
    /\ last.maxWait = 0
    /\ cfg.maxDebtNanos = 0
    /\ last.ret = 0

\* The three parts of C4 for the last call; the rejection of an early Take(1, 0)
\* is asked for either always or only while the cells have not expired since
\* the draining call.
DrainScenario(alsoAfterExpiry) ==
    /\ (/\ last.now > 0
        /\ last.full
        /\ cfg.maxDebtNanos = 0
        /\ last.maxWait = 0
        /\ last.requested = cfg.maxTokensToAccumulate) => last.ret = 0
    /\ (/\ last.t0 > 0
        /\ last.requested = 1
        /\ last.maxWait = 0) =>
            /\ (/\ last.now < last.t0 + cfg.nanosBetweenTokens
                /\ (alsoAfterExpiry \/ ~last.expired)) => last.ret < 0
            /\ (last.now = last.t0 + cfg.nanosBetweenTokens => last.ret = 0)

\* C4, as claimed: with maxDebt = 0, Take(size, 0) on the full bucket is admitted
\* with wait 0; after it, and after any rejected calls, Take(1, 0) earlier than
\* nanosBetweenTokens after it is rejected and Take(1, 0) exactly
\* nanosBetweenTokens after it is admitted with wait 0.
C4_Original == DrainScenario(TRUE)

\* C4, amended: the same, the rejection of the early Take(1, 0) provided the
\* bucket's cells did not expire (idle expiry, maxIdleMillis > 0) between the
\* draining call and it.
C4_DrainThenRefill == DrainScenario(FALSE)

\* After the draining call and a rejected early Take(1, 0), Take(1, 0) exactly
\* nanosBetweenTokens after the draining call was admitted with wait 0.
C4_Witness ==
    /\ last.t0 > 0
    /\ ~last.expired
    /\ last.rejectedSince
    /\ last.requested = 1
    /\ last.maxWait = 0
    /\ last.now = last.t0 + cfg.nanosBetweenTokens
    /\ last.ret = 0

\* C5: the stored accumulatedTokens is within [0, size].
C5_AccumulatedWithinSize ==
    at # Absent => (0 <= at[1] /\ at[1] <= cfg.maxTokensToAccumulate)

\* C14: after an admitted invocation with timestamp now the stored
\* tokensNextAvailableNanos lies in [now, now + maxDebtNanos]: an invocation
\* whose deficit would put it beyond now + maxDebtNanos stores nothing.
C14_DebtBounded ==
    (last.now > 0 /\ last.ret >= 0 /\ tna # Absent) =>
        (last.now <= tna[1] /\ tna[1] <= last.now + cfg.maxDebtNanos)

\* An admitted invocation went into debt as far as maxDebtNanos allows.
C14_Witness ==
    /\ last.now > 0
    /\ last.ret >= 0
    /\ cfg.maxDebtNanos > 0
    /\ tna = << last.now + cfg.maxDebtNanos >>

-----------------------------------------------------------------------------
(* Properties of the script as a rate limiter, under SpecRate *)

\* The tokens a bucket can have handed out from its first call to the last
\* one: size, the refill of the time between them, and the debt allowed, the
\* last two rounded down to whole tokens apart or together.
RateBound(together) ==
    IF together
    THEN cfg.maxTokensToAccumulate
         + (last.now - first + cfg.maxDebtNanos) \div cfg.nanosBetweenTokens
    ELSE cfg.maxTokensToAccumulate
         + (last.now - first) \div cfg.nanosBetweenTokens
         + cfg.maxDebtNanos \div cfg.nanosBetweenTokens

\* C18, as claimed: the sum of requested over the admitted calls from the first
\* call at t0 to the call at t is at most
\* size + floor((t - t0) / nanosBetweenTokens) + floor(maxDebtNanos / nanosBetweenTokens).
C18_Original == first > 0 => admitted <= RateBound(FALSE)

\* C18, amended: it is at most
\* size + floor((t - t0 + maxDebtNanos) / nanosBetweenTokens).
C18_RateEnforced == first > 0 => admitted <= RateBound(TRUE)

\* Calls after the first one, with debt allowed, were admitted up to the bound.
C18_Witness ==
    /\ first > 0
    /\ last.now > first
    /\ last.ret >= 0
    /\ cfg.maxDebtNanos > 0
    /\ admitted = RateBound(TRUE)
    /\ admitted > cfg.maxTokensToAccumulate

\* C19: with maxDebt = 0 and every call so far made with maxWait = 0 for a
\* positive amount, a call that finds at least requested tokens in the reference
\* bucket (which keeps the refill time short of a whole token) is admitted with
\* wait 0.
C19_AgreesWithReference ==
    (/\ cfg.maxDebtNanos = 0
     /\ last.now > 0
     /\ ref.plain
     /\ ref.had >= last.requested * cfg.nanosBetweenTokens) => last.ret = 0

-----------------------------------------------------------------------------
(* Properties of Take and the factory, under SpecTake *)

\* C2: a Take that returned (0, false) got the reply of a rejection; a Take whose
\* answered attempt admitted returned (wait, true) with the script's wait, and
\* 0 <= wait <= max(0, maxWait).
C2_TakeReturnsAlgorithmResult ==
    \A p \in Procs : pc[p] = "done" =>
        /\ hist[p].yielded = 1
        /\ ~result[p].ok => (hist[p].ret < 0 /\ result[p].wait = 0)
        /\ hist[p].ret >= 0 =>
            /\ result[p] = [ wait |-> hist[p].ret, ok |-> TRUE ]
            /\ 0 <= result[p].wait
            /\ result[p].wait <= Max(0, args[p].maxWait)

\* A Take returned a positive wait.
C2_Witness == \E p \in Procs : pc[p] = "done" /\ result[p].ok /\ result[p].wait > 0

\* C9: reconnectToRedis(h) connects at most once per handle h, whoever calls it
\* and how often; a caller whose attempt on h failed and whose reconnect is
\* over finds h replaced exactly once; nothing else makes handles.
C9_OneReplacementPerHandle ==
    /\ \A h \in 1 .. MaxHandles : replaced[h] <= 1
    /\ handles = 1 + Cardinality({ h \in 1 .. MaxHandles : replaced[h] > 0 })
    /\ \A p \in Procs :
        (pc[p] = "loop" /\ keepTrying[p] /\ hist[p].failed > 0) =>
            (replaced[observed[p]] = 1 /\ client # observed[p])

\* Two callers failed on the first handle and both have reconnected.
C9_Witness ==
    \E p, q \in Procs :
        /\ p # q
        /\ pc[p] = "loop" /\ keepTrying[p] /\ hist[p].failed > 0 /\ observed[p] = 1
        /\ pc[q] = "loop" /\ keepTrying[q] /\ hist[q].failed > 0 /\ observed[q] = 1
        /\ replaced[1] = 1

\* C10: connectionRetries is the configured bound, or 1 if that is below 1; a
\* Take makes at most connectionRetries attempts, none after the first answered
\* one, and panics exactly when connectionRetries attempts failed.
C10_RetriesBounded ==
    /\ connectionRetries = Max(1, configuredRetries)
    /\ \A p \in Procs :
        /\ attempt[p] <= connectionRetries
        /\ hist[p].failed + hist[p].yielded <= connectionRetries
        /\ hist[p].yielded <= 1
        /\ hist[p].yielded = 1 => pc[p] \in {"loop", "done"}
        /\ pc[p] = "panic" => (hist[p].failed = connectionRetries /\ hist[p].yielded = 0)
        /\ pc[p] = "done" => (hist[p].failed < connectionRetries /\ hist[p].yielded = 1)

\* A Take panicked after two failed attempts.
C10_Witness ==
    \E p \in Procs : pc[p] = "panic" /\ connectionRetries = 2 /\ hist[p].failed = 2

\* C15: when no Take is between a failed attempt and the end of its reconnect,
\* the factory's current handle has not been closed.
C15_CurrentHandleOpen ==
    (\A p \in Procs : pc[p] \notin {"close", "reconnect"}) => client \notin closed

\* C20: the attempts of one Take call make the store run an admitting
\* invocation of the script at most once.
C20_AppliedAtMostOnce == \A p \in Procs : hist[p].applied <= 1

\* The backing-store key schema: "<namespace>:<bucketName>:TNA" and
\* "<namespace>:<bucketName>:AT"
SchemaKeys(namespaces) ==
    UNION { { b[1] \o ":" \o b[2] \o ":TNA", b[1] \o ":" \o b[2] \o ":AT" } :
                b \in namespaces }

\* C11: once Init(newConfig) has completed with a successful cleanup, it has
\* deleted every key it found in the store that newConfig does not imply, none
\* that newConfig implies, and it has changed no key's value.
C11_StaleKeysDeleted ==
    (pcInit = "idle" /\ cleaned.ran /\ cleaned.ok) =>
        /\ cleaned.found \ SchemaKeys(cleaned.arg) \subseteq cleaned.removed
        /\ cleaned.removed \cap SchemaKeys(cleaned.arg) = {}
        /\ cleaned.altered = {}

\* An Init deleted the two keys of a bucket taken out of the configuration and
\* kept the keys it found of a bucket still in it.
C11_Witness ==
    /\ pcInit = "idle"
    /\ cleaned.ran
    /\ cleaned.ok
    /\ cleaned.removed = { "n2:a:TNA", "n2:a:AT" }
    /\ cleaned.arg = { <<"n1", "a">> }
    /\ { "n1:a:TNA", "n1:a:AT" } \subseteq cleaned.found
    /\ { "n1:a:TNA", "n1:a:AT" } \subseteq DOMAIN store

-----------------------------------------------------------------------------
(* Properties of the reload pipeline, under SpecServer and SpecServerFair *)

\* C12: the configuration the reload loop applied last has the version of the
\* one it replaced plus 1, whatever version the submitted one carried, a date
\* not before the replaced one's, and the user given to the UpdateConfig whose
\* blob was the current one when the loop read.
C12_VersionBumpedByOne ==
    reload.ran > 0 =>
        /\ active.version = reload.prev.version + 1
        /\ active.date >= reload.prev.date
        /\ active.user = Unmarshal(reload.from).user

\* Updates were applied on top of the persisted configuration of version 2:
\* the active version is 4, the last update submitted version 0 at a later time
\* for another user.
C12_Witness ==
    /\ reload.ran > 0
    /\ active.version = 4
    /\ reload.prev.version = 3
    /\ Unmarshal(reload.from).version = 0
    /\ active.date > reload.prev.date
    /\ active.user # reload.prev.user

\* The active configuration is the one applied from the current blob, and
\* nothing is left to process.
Reflects ==
    /\ Decodes(ReadPersistedConfig)
    /\ lastRead = << ReadPersistedConfig >>
    /\ active.user = Unmarshal(ReadPersistedConfig).user
    /\ pcC = "wait"
    /\ watcher = 0

\* C13: UpdateConfig's last step, the notification, never waits for the reload
\* loop; and if from some point on no UpdateConfig is under way and the server
\* is Started, then from some point on the active configuration reflects the
\* current blob.
C13_AsyncButEffective ==
    /\ [](\A w \in Writers : pcW[w] = "notify" => ENABLED PersistNotify(w))
    /\ (<>[](Quiet /\ srvState = "Started")) => <>[](config # NoKey => Reflects)

\* An UpdateConfig has returned and its configuration is not active yet, an
\* earlier one having been applied.
C13_Witness ==
    /\ srvState = "Started"
    /\ Quiet
    /\ \E w \in Admins : retW[w] = "nil"
    /\ reload.ran > 0
    /\ watcher = 1
    /\ pcC = "wait"
    /\ active.user # Unmarshal(ReadPersistedConfig).user

-----------------------------------------------------------------------------
(* Properties of the persister, under SpecPersist *)

\* C6: ReadHistoricalConfigs returns as many entries as distinct contents were
\* persisted, and they are those contents.
C6_HistoryIsDistinctContents ==
    /\ BagCardinality(ReadHistoricalConfigs) = Cardinality(persisted)
    /\ BagToSet(ReadHistoricalConfigs) = persisted

\* A content was persisted a second time, and another one besides.
C6_Witness == Quiet /\ again # "new" /\ Cardinality(persisted) >= 2

\* C7: the watcher never holds more than one notification; it holds exactly one
\* once a PersistAndNotify has completed since the last receive, however many
\* have; and the notifying step of PersistAndNotify can always be taken.
C7_OnePendingNotification ==
    /\ watcher <= 1
    /\ sinceRecv # "none" => watcher = 1
    /\ \A w \in Writers : pcW[w] = "notify" => ENABLED PersistNotify(w)

\* Several calls completed since the last receive.
C7_Witness == sinceRecv = "many" /\ watcher = 1

\* C8: between calls, ReadPersistedConfig returns the bytes of the call that
\* completed last.
C8_ReadReturnsLastPersisted ==
    (Quiet /\ lastPersisted # <<>>) => ReadPersistedConfig = lastPersisted[1]

\* The last call persisted again a content that an earlier call had persisted,
\* another content having been current in between.
C8_Witness == Quiet /\ lastPersisted # <<>> /\ again = "return"

\* C16: every entry of m.configs is stored under the hash of its own bytes, and
\* m.config, once set, is the key of an entry (the moment between a call's two
\* assignments, when the entry is about to be stored, is not held against it).
C16_KeyedByOwnHash ==
    /\ \A k \in DOMAIN configs : k = hashConfig(configs[k])
    /\ (config # NoKey /\ \A w \in Writers : pcW[w] # "store") =>
            config \in DOMAIN configs

\* Whenever no call is under way and the current blob is not the one the
\* consumer read last, a notification is in the watcher or the consumer has
\* received one and is about to read.
UnreadImpliesNotified ==
    (Quiet /\ config # NoKey /\ lastRead # << ReadPersistedConfig >>) =>
        (watcher > 0 \/ pcC = "read")

\* C17: no change is lost on a consumer that re-reads on each notification:
\* UnreadImpliesNotified holds throughout, and if the calls of
\* PersistAndNotify stop, from some point on the consumer has read the current
\* blob.
C17_NoLostChange ==
    /\ []UnreadImpliesNotified
    /\ (<>[]Quiet) => <>[](config # NoKey => lastRead = << ReadPersistedConfig >>)

\* After several contents were persisted, the last one a return to an earlier
\* one, the consumer has taken the notification and read the current blob.
C17_Witness ==
    /\ Quiet
    /\ again = "return"
    /\ watcher = 0
    /\ pcC = "wait"
    /\ lastRead = << ReadPersistedConfig >>

====
